---- MODULE Spec2Model ----
(***************************************************************************)
(* flash.text.TextField of the AVM2 runtime: the class bootstrap           *)
(* (create_class), the instance constructor (instance_init), the accessor  *)
(* builtins, and the runtime pieces they call: super_init, the native      *)
(* backing, the trait tables, property lookup and the value coercions.     *)
(* Also BlurFilter::apply of the wgpu renderer and run_swf of the test     *)
(* runner, each with a specification of its own.                           *)
(***************************************************************************)
EXTENDS Integers, Sequences, FiniteSets, TLC

(***************************************************************************)
(* Bounds of the model.                                                    *)
(***************************************************************************)
\* Depth of the activation stack at which a call fails with stack-overflow.
MaxDepth == 5
\* Number of ancestor classes whose constructors super_init walks.
NumAncestors == 2
\* Cap on the number of backings ever allocated for the object.
MaxBackings == 2
\* Cap on the number of property writes of a run.
MaxWrites == 2
\* Cap on the number of traits the bootstrap of the ancestors defines.
MaxDefines == 3
\* Largest num_frames run_swf is called with.
MaxFrames == 2
\* Cap on the preload calls of one frame: the last one reports completion.
MaxPreloads == 2

(***************************************************************************)
(* Values of the language.  A string is the sequence of its characters.    *)
(***************************************************************************)
\* h is the high half of an unsigned 32-bit value and 0 otherwise.
V(t, n, s) == [t |-> t, n |-> n, s |-> s, h |-> 0]
Undefined == V("undefined", 0, <<>>)
Null == V("null", 0, <<>>)
Bool(b) == V("boolean", IF b THEN 1 ELSE 0, <<>>)
Num(n) == V("number", n, <<>>)
Str(s) == V("string", 0, s)
\* An object; n = 1 when its conversion to a primitive (valueOf / toString)
\* throws, 0 when it yields the string "x".
Obj(throws) == V("object", IF throws THEN 1 ELSE 0, <<>>)

\* An unsigned 32-bit integer is kept as its two 16-bit halves, so that the
\* wraparound modulo 2^32 is exact for every number the callers pass.
Half == 256 * 256
U32(hi, lo) == [hi |-> hi, lo |-> lo]
Uint(u) == [t |-> "uint", n |-> u.lo, s |-> <<>>, h |-> u.hi]
\* n modulo 2^32, for n of either sign.
WrapU32(n) ==
    IF n >= 0 THEN U32((n \div Half) % Half, n % Half)
    ELSE LET m == (0 - n) - 1 IN
         U32((Half - 1) - ((m \div Half) % Half), (Half - 1) - (m % Half))

S_none == <<"n", "o", "n", "e">>
S_left == <<"l", "e", "f", "t">>
S_center == <<"c", "e", "n", "t", "e", "r">>
S_right == <<"r", "i", "g", "h", "t">>
S_abc == <<"a", "b", "c">>
S_x == <<"x">>
S_12 == <<"1", "2">>

\* The argument values the callers pass.
ArgValues ==
    { Undefined, Null,
      Num(0), Num(1), Num(-1),
      Str(<<>>), Str(S_x), Str(S_abc), Str(S_12),
      Str(S_left), Str(S_center), Str(S_right),
      Obj(FALSE), Obj(TRUE) }

Digits == <<"0", "1", "2", "3", "4", "5", "6", "7", "8", "9">>
IsDigit(c) == \E i \in 1..10 : Digits[i] = c
DigitVal(c) == (CHOOSE i \in 1..10 : Digits[i] = c) - 1

RECURSIVE ParseDigits(_, _)
ParseDigits(s, acc) ==
    IF s = <<>> THEN acc
    ELSE ParseDigits(Tail(s), acc * 10 + DigitVal(Head(s)))

RECURSIVE FormatNat(_)
FormatNat(n) ==
    IF n < 10 THEN <<Digits[n + 1]>>
    ELSE FormatNat(n \div 10) \o <<Digits[(n % 10) + 1]>>

Ok(v) == [ok |-> TRUE, val |-> v]
\* A failure carries its error kind.
Error(kind) == V(kind, 0, <<>>)
Err(kind) == [ok |-> FALSE, val |-> Error(kind)]
NaN == V("nan", 0, <<>>)

\* String to number: a numeric string parses, the empty string is 0,
\* anything else is the not-a-number sentinel.
StringToNumber(s) ==
    IF s = <<>> THEN Num(0)
    ELSE IF \A i \in 1..Len(s) : IsDigit(s[i]) THEN Num(ParseDigits(s, 0))
    ELSE IF Head(s) = "-" /\ Len(s) > 1 /\ \A i \in 2..Len(s) : IsDigit(s[i])
         THEN Num(0 - ParseDigits(Tail(s), 0))
    ELSE NaN

\* The primitive an object converts to, or the type-coercion error.
ToPrimitive(v) ==
    IF v.t # "object" THEN Ok(v)
    ELSE IF v.n = 1 THEN Err("type-coercion")
    ELSE Ok(Str(S_x))

coerce_to_boolean(v) ==
    CASE v.t = "undefined" -> FALSE
      [] v.t = "null" -> FALSE
      [] v.t = "boolean" -> v.n = 1
      [] v.t = "number" -> v.n # 0
      [] v.t = "uint" -> v.n # 0 \/ v.h # 0
      [] v.t = "string" -> v.s # <<>>
      [] OTHER -> TRUE

coerce_to_number_prim(v) ==
    CASE v.t = "undefined" -> NaN
      [] v.t = "null" -> Num(0)
      [] v.t = "boolean" -> Num(v.n)
      [] v.t = "number" -> v
      [] v.t = "string" -> StringToNumber(v.s)
      [] OTHER -> NaN

\* Not-a-number folds to 0; a number wraps to 32 bits.
coerce_to_u32(v) ==
    LET p == ToPrimitive(v) IN
    IF ~p.ok THEN p
    ELSE IF p.val.t = "uint" THEN Ok(U32(p.val.h, p.val.n))
    ELSE LET d == coerce_to_number_prim(p.val) IN
         IF d.t = "nan" THEN Ok(U32(0, 0)) ELSE Ok(WrapU32(d.n))

coerce_to_string(v) ==
    LET p == ToPrimitive(v) IN
    IF ~p.ok THEN p
    ELSE LET w == p.val IN
         CASE w.t = "undefined" ->
                  Ok(<<"u", "n", "d", "e", "f", "i", "n", "e", "d">>)
           [] w.t = "null" -> Ok(<<"n", "u", "l", "l">>)
           [] w.t = "boolean" ->
                  Ok(IF w.n = 1 THEN <<"t", "r", "u", "e">>
                     ELSE <<"f", "a", "l", "s", "e">>)
           [] w.t = "number" ->
                  Ok(IF w.n < 0 THEN <<"-">> \o FormatNat(0 - w.n)
                     ELSE FormatNat(w.n))
           [] w.t = "string" -> Ok(w.s)

(***************************************************************************)
(* Traits and the class: the instance-trait table is ordered and holds at  *)
(* most one trait per QName and kind.                                      *)
(***************************************************************************)
QName(ns, name) == [ns |-> ns, name |-> name]
Public(name) == QName("public", name)
from_getter(q, m) == [name |-> q, kind |-> "getter", method |-> m]
from_setter(q, m) == [name |-> q, kind |-> "setter", method |-> m]

\* Mutant: the trait is always added, whatever the table holds.
define_instance_trait_append(table, trait) == Append(table, trait)

\* Same QName and kind: the trait replaces the one in the table; otherwise it
\* is added, so a getter and a setter of one QName stand side by side.
define_instance_trait(table, trait) ==
    IF \E i \in DOMAIN table :
           table[i].name = trait.name /\ table[i].kind = trait.kind
    THEN [i \in DOMAIN table |->
             IF table[i].name = trait.name /\ table[i].kind = trait.kind
             THEN trait ELSE table[i]]
    ELSE Append(table, trait)

\* The static table follows the same rule as the instance table.
define_static_trait(table, trait) ==
    IF \E i \in DOMAIN table :
           table[i].name = trait.name /\ table[i].kind = trait.kind
    THEN [i \in DOMAIN table |->
             IF table[i].name = trait.name /\ table[i].kind = trait.kind
             THEN trait ELSE table[i]]
    ELSE Append(table, trait)

RECURSIVE DefineAll(_, _)
DefineAll(table, traits) ==
    IF traits = <<>> THEN table
    ELSE DefineAll(define_instance_trait(table, Head(traits)), Tail(traits))

\* Mutant: the border setter is registered with from_getter.
TextFieldTraits_setter_as_getter ==
    << from_getter(Public("autoSize"), "autosize"),
       from_setter(Public("autoSize"), "set_autosize"),
       from_getter(Public("backgroundColor"), "background_color"),
       from_setter(Public("backgroundColor"), "set_background_color"),
       from_getter(Public("border"), "border"),
       from_getter(Public("border"), "set_border"),
       from_getter(Public("borderColor"), "border_color"),
       from_setter(Public("borderColor"), "set_border_color"),
       from_getter(Public("defaultTextFormat"), "default_text_format"),
       from_setter(Public("defaultTextFormat"), "set_default_text_format"),
       from_getter(Public("displayAsPassword"), "display_as_password"),
       from_setter(Public("displayAsPassword"), "set_display_as_password"),
       from_getter(Public("embedFonts"), "embed_fonts"),
       from_setter(Public("embedFonts"), "set_embed_fonts"),
       from_getter(Public("htmlText"), "html_text"),
       from_setter(Public("htmlText"), "set_html_text"),
       from_getter(Public("length"), "length") >>

\* The traits create_class registers, in its order.
TextFieldTraits ==
    << from_getter(Public("autoSize"), "autosize"),
       from_setter(Public("autoSize"), "set_autosize"),
       from_getter(Public("backgroundColor"), "background_color"),
       from_setter(Public("backgroundColor"), "set_background_color"),
       from_getter(Public("border"), "border"),
       from_setter(Public("border"), "set_border"),
       from_getter(Public("borderColor"), "border_color"),
       from_setter(Public("borderColor"), "set_border_color"),
       from_getter(Public("defaultTextFormat"), "default_text_format"),
       from_setter(Public("defaultTextFormat"), "set_default_text_format"),
       from_getter(Public("displayAsPassword"), "display_as_password"),
       from_setter(Public("displayAsPassword"), "set_display_as_password"),
       from_getter(Public("embedFonts"), "embed_fonts"),
       from_setter(Public("embedFonts"), "set_embed_fonts"),
       from_getter(Public("htmlText"), "html_text"),
       from_setter(Public("htmlText"), "set_html_text"),
       from_getter(Public("length"), "length") >>

NoClass == [name |-> QName("", ""), super |-> QName("", ""),
            instance_init |-> "", class_init |-> "", instance_traits |-> <<>>]

\* Mutant: the class is made without a superclass.
create_class_no_super ==
    [name |-> QName("flash.text", "TextField"),
     super |-> QName("", ""),
     instance_init |-> "instance_init",
     class_init |-> "class_init",
     instance_traits |-> DefineAll(<<>>, TextFieldTraits)]

create_class ==
    [name |-> QName("flash.text", "TextField"),
     super |-> QName("flash.display", "InteractiveObject"),
     instance_init |-> "instance_init",
     class_init |-> "class_init",
     instance_traits |-> DefineAll(<<>>, TextFieldTraits)]

\* The method of the trait of this QName and kind, "" when the table has none.
find_instance_trait(table, q, kind) ==
    IF \E i \in DOMAIN table : table[i].name = q /\ table[i].kind = kind
    THEN table[CHOOSE i \in DOMAIN table :
                   table[i].name = q /\ table[i].kind = kind].method
    ELSE ""

(***************************************************************************)
(* The native backing: an EditText.                                        *)
(***************************************************************************)
None == "None"
\* as_display_object() of an object without a backing; a backing is its id >= 1.
NoBacking == 0
\* The receiver of a call: no receiver, or the object.
This == "this"
Receivers == {None, This}
\* Another receiver: an object whose display object is not an EditText.
Other == "other"

\* The EditText that EditText::new returns.
EditTextNew ==
    [autosize |-> "None",
     background_color |-> U32(255, Half - 1),
     has_border |-> FALSE,
     border_color |-> U32(0, 0),
     is_password |-> FALSE,
     is_device_font |-> TRUE,
     text |-> <<>>,
     new_text_format |-> "default"]

(***************************************************************************)
(* State.                                                                  *)
(***************************************************************************)
VARIABLES
    class,           \* flash.text.TextField once create_class has run, else NoClass
    display_object,  \* the object's native backing: NoBacking, or the backing's id
    edit_text,       \* the fields of the backing (EditTextNew while there is none)
    num_backings,    \* how many backings have been bound to the object
    stack,           \* the activations of the running constructor chain
    last,            \* the call that last returned to the outermost caller
    initialized,     \* history: a leaf constructor has completed on the object
    border_written,  \* history: set_border has stored a value in the backing
    num_writes,      \* history: how many property writes the callers have made
    ancestor_traits, \* the instance-trait table of each ancestor class
    static_traits,   \* the static-trait table of the class being defined
    num_defines,     \* history: how many traits the bootstrap has defined
    lookup,          \* the trait lookup that last returned
    blur,            \* BlurFilter::apply: its arguments, locals and progress
    runner           \* run_swf: its arguments, locals and progress

textfield_vars == <<class, display_object, edit_text, num_backings, stack, last,
                    initialized, border_written, num_writes>>
hierarchy_vars == <<ancestor_traits, static_traits, num_defines, lookup>>

vars == <<textfield_vars, hierarchy_vars, blur, runner>>

\* The ancestors of TextField, nearest first: ancestor 1 is the class that
\* create_class names as the superclass, the last one is the root.
InteractiveObject == QName("flash.display", "InteractiveObject")
Ancestors == 1 .. NumAncestors

\* A lookup's answer: the class whose table answered (0 is TextField, k the
\* k-th ancestor) and the method; NotFound when no table of the chain has it.
Found(cls, method) == [cls |-> cls, method |-> method]
NotFound == Found(0 - 1, "")

\* The search of the ancestors' tables from the k-th upwards.
RECURSIVE find_in_ancestors(_, _, _)
find_in_ancestors(k, q, kind) ==
    IF k > NumAncestors THEN NotFound
    ELSE LET m == find_instance_trait(ancestor_traits[k], q, kind) IN
         IF m # "" THEN Found(k, m)
         ELSE find_in_ancestors(k + 1, q, kind)

\* The search of the class's own table, then of its superclass chain.
find_in_chain(q, kind) ==
    LET m == find_instance_trait(class.instance_traits, q, kind) IN
    IF m # "" THEN Found(0, m)
    ELSE IF class.super = InteractiveObject THEN find_in_ancestors(1, q, kind)
    ELSE NotFound

\* A returned call: the operation, the property it named, the receiver, the
\* arguments, and the result (a value, or the error).
Call(op, name, this, args, ok, val) ==
    [op |-> op, name |-> name, this |-> this, args |-> args, ok |-> ok,
     val |-> val]
NoCall == Call("", "", None, <<>>, TRUE, Undefined)

\* What a builtin returns, and the backing it leaves.
Ret(ok, val, et) == [ok |-> ok, val |-> val, et |-> et]

\* this.and_then(as_display_object).and_then(as_edit_text) is Some.
as_edit_text(this) == this = This /\ display_object # NoBacking

\* args.get(0).cloned().unwrap_or(Value::Undefined)
arg0(args) == IF Len(args) >= 1 THEN args[1] ELSE Undefined

\* Mutant: a string that names no mode selects Left.
AutoSizeModeOf_default_left(s) ==
    CASE s = S_center -> "Center"
      [] s = S_right -> "Right"
      [] OTHER -> "Left"

AutoSizeModeOf(s) ==
    CASE s = S_left -> "Left"
      [] s = S_center -> "Center"
      [] s = S_right -> "Right"
      [] OTHER -> "None"

autosize(this, args) ==
    IF as_edit_text(this)
    THEN Ret(TRUE,
             CASE edit_text.autosize = "None" -> Str(S_none)
               [] edit_text.autosize = "Left" -> Str(S_left)
               [] edit_text.autosize = "Center" -> Str(S_center)
               [] edit_text.autosize = "Right" -> Str(S_right),
             edit_text)
    ELSE Ret(TRUE, Undefined, edit_text)

\* Mutant: a failed coercion is taken as the default string.
set_autosize_unwrap_or_default(this, args) ==
    IF as_edit_text(this)
    THEN LET value == coerce_to_string(arg0(args)) IN
         Ret(TRUE, Undefined,
             [edit_text EXCEPT
                 !.autosize = AutoSizeModeOf(IF value.ok THEN value.val
                                             ELSE <<>>)])
    ELSE Ret(TRUE, Undefined, edit_text)

set_autosize(this, args) ==
    IF as_edit_text(this)
    THEN LET value == coerce_to_string(arg0(args)) IN
         IF ~value.ok THEN Ret(FALSE, value.val, edit_text)
         ELSE Ret(TRUE, Undefined,
                  [edit_text EXCEPT !.autosize = AutoSizeModeOf(value.val)])
    ELSE Ret(TRUE, Undefined, edit_text)

background_color(this, args) ==
    IF as_edit_text(this)
    THEN Ret(TRUE, Uint(edit_text.background_color), edit_text)
    ELSE Ret(TRUE, Undefined, edit_text)

\* Mutant: the colour is stored in the border colour.
set_background_color_wrong_field(this, args) ==
    IF as_edit_text(this)
    THEN LET new_color == coerce_to_u32(arg0(args)) IN
         IF ~new_color.ok THEN Ret(FALSE, new_color.val, edit_text)
         ELSE Ret(TRUE, Undefined,
                  [edit_text EXCEPT !.border_color = new_color.val])
    ELSE Ret(TRUE, Undefined, edit_text)

\* Mutant: the argument is coerced before the receiver is looked at.
set_background_color_coerce_first(this, args) ==
    LET new_color == coerce_to_u32(arg0(args)) IN
    IF ~new_color.ok THEN Ret(FALSE, new_color.val, edit_text)
    ELSE IF as_edit_text(this)
    THEN Ret(TRUE, Undefined,
             [edit_text EXCEPT !.background_color = new_color.val])
    ELSE Ret(TRUE, Undefined, edit_text)

set_background_color(this, args) ==
    IF as_edit_text(this)
    THEN LET new_color == coerce_to_u32(arg0(args)) IN
         IF ~new_color.ok THEN Ret(FALSE, new_color.val, edit_text)
         ELSE Ret(TRUE, Undefined,
                  [edit_text EXCEPT !.background_color = new_color.val])
    ELSE Ret(TRUE, Undefined, edit_text)

\* Mutant: the flag is negated, as the embedFonts getter negates its flag.
border_negated(this, args) ==
    IF as_edit_text(this)
    THEN Ret(TRUE, Bool(~edit_text.has_border), edit_text)
    ELSE Ret(TRUE, Undefined, edit_text)

border(this, args) ==
    IF as_edit_text(this)
    THEN Ret(TRUE, Bool(edit_text.has_border), edit_text)
    ELSE Ret(TRUE, Undefined, edit_text)

\* Mutant: the argument is read at index 1, so it is always missing.
set_border_wrong_index(this, args) ==
    IF as_edit_text(this)
    THEN Ret(TRUE, Undefined,
             [edit_text EXCEPT
                 !.has_border =
                     coerce_to_boolean(IF Len(args) >= 2 THEN args[2]
                                       ELSE Undefined)])
    ELSE Ret(TRUE, Undefined, edit_text)

set_border(this, args) ==
    IF as_edit_text(this)
    THEN Ret(TRUE, Undefined,
             [edit_text EXCEPT !.has_border = coerce_to_boolean(arg0(args))])
    ELSE Ret(TRUE, Undefined, edit_text)

border_color(this, args) ==
    IF as_edit_text(this)
    THEN Ret(TRUE, Uint(edit_text.border_color), edit_text)
    ELSE Ret(TRUE, Undefined, edit_text)

\* Mutant: the colour is also stored as the background colour.
set_border_color_both_colors(this, args) ==
    IF as_edit_text(this)
    THEN LET color == coerce_to_u32(arg0(args)) IN
         IF ~color.ok THEN Ret(FALSE, color.val, edit_text)
         ELSE Ret(TRUE, Undefined,
                  [edit_text EXCEPT !.border_color = color.val,
                                    !.background_color = color.val])
    ELSE Ret(TRUE, Undefined, edit_text)

set_border_color(this, args) ==
    IF as_edit_text(this)
    THEN LET color == coerce_to_u32(arg0(args)) IN
         IF ~color.ok THEN Ret(FALSE, color.val, edit_text)
         ELSE Ret(TRUE, Undefined, [edit_text EXCEPT !.border_color = color.val])
    ELSE Ret(TRUE, Undefined, edit_text)

display_as_password(this, args) ==
    IF as_edit_text(this)
    THEN Ret(TRUE, Bool(edit_text.is_password), edit_text)
    ELSE Ret(TRUE, Undefined, edit_text)

set_display_as_password(this, args) ==
    IF as_edit_text(this)
    THEN Ret(TRUE, Undefined,
             [edit_text EXCEPT !.is_password = coerce_to_boolean(arg0(args))])
    ELSE Ret(TRUE, Undefined, edit_text)

embed_fonts(this, args) ==
    IF as_edit_text(this)
    THEN Ret(TRUE, Bool(~edit_text.is_device_font), edit_text)
    ELSE Ret(TRUE, Undefined, edit_text)

\* Mutant: the flag is stored without the negation.
set_embed_fonts_not_negated(this, args) ==
    IF as_edit_text(this)
    THEN Ret(TRUE, Undefined,
             [edit_text EXCEPT
                 !.is_device_font = coerce_to_boolean(arg0(args))])
    ELSE Ret(TRUE, Undefined, edit_text)

set_embed_fonts(this, args) ==
    IF as_edit_text(this)
    THEN Ret(TRUE, Undefined,
             [edit_text EXCEPT
                 !.is_device_font = ~coerce_to_boolean(arg0(args))])
    ELSE Ret(TRUE, Undefined, edit_text)

\* A primitive is boxed; undefined and null have no object.
coerce_to_object(v) ==
    IF v.t \in {"undefined", "null"} THEN Err("type-coercion") ELSE Ok(v)

\* The text format read off the properties of an object: a boxed primitive
\* has none of them.
TextFormat_from_avm2_object(obj) ==
    Ok(IF obj.t = "object" THEN "object" ELSE "empty")

default_text_format(this, args) ==
    IF as_edit_text(this)
    THEN Ret(TRUE, Obj(FALSE), edit_text)
    ELSE Ret(TRUE, Undefined, edit_text)

set_default_text_format(this, args) ==
    IF as_edit_text(this)
    THEN LET obj == coerce_to_object(arg0(args)) IN
         IF ~obj.ok THEN Ret(FALSE, obj.val, edit_text)
         ELSE LET new_text_format == TextFormat_from_avm2_object(obj.val) IN
              IF ~new_text_format.ok
              THEN Ret(FALSE, new_text_format.val, edit_text)
              ELSE Ret(TRUE, Undefined,
                       [edit_text EXCEPT
                           !.new_text_format = new_text_format.val])
    ELSE Ret(TRUE, Undefined, edit_text)

\* The field is not an HTML field: its HTML text is its text.
html_text(this, args) ==
    IF as_edit_text(this)
    THEN Ret(TRUE, Str(edit_text.text), edit_text)
    ELSE Ret(TRUE, Undefined, edit_text)

set_html_text(this, args) ==
    IF as_edit_text(this)
    THEN LET value == coerce_to_string(arg0(args)) IN
         IF ~value.ok THEN Ret(FALSE, value.val, edit_text)
         ELSE Ret(TRUE, Undefined, [edit_text EXCEPT !.text = value.val])
    ELSE Ret(TRUE, Undefined, edit_text)

length(this, args) ==
    IF as_edit_text(this)
    THEN Ret(TRUE, Num(Len(edit_text.text)), edit_text)
    ELSE Ret(TRUE, Undefined, edit_text)

\* Method::from_builtin(m) called with a receiver and arguments.
Invoke(m, this, args) ==
    CASE m = "autosize" -> autosize(this, args)
      [] m = "set_autosize" -> set_autosize(this, args)
      [] m = "background_color" -> background_color(this, args)
      [] m = "set_background_color" -> set_background_color(this, args)
      [] m = "border" -> border(this, args)
      [] m = "set_border" -> set_border(this, args)
      [] m = "border_color" -> border_color(this, args)
      [] m = "set_border_color" -> set_border_color(this, args)
      [] m = "display_as_password" -> display_as_password(this, args)
      [] m = "set_display_as_password" -> set_display_as_password(this, args)
      [] m = "embed_fonts" -> embed_fonts(this, args)
      [] m = "set_embed_fonts" -> set_embed_fonts(this, args)
      [] m = "default_text_format" -> default_text_format(this, args)
      [] m = "set_default_text_format" -> set_default_text_format(this, args)
      [] m = "html_text" -> html_text(this, args)
      [] m = "set_html_text" -> set_html_text(this, args)
      [] m = "length" -> length(this, args)

\* The getters and the setters create_class registers.
Getters ==
    {"autosize", "background_color", "border", "border_color",
     "default_text_format", "display_as_password", "embed_fonts", "html_text",
     "length"}
Setters ==
    {"set_autosize", "set_background_color", "set_border", "set_border_color",
     "set_default_text_format", "set_display_as_password", "set_embed_fonts",
     "set_html_text"}

\* The properties read and written through the trait table.
Properties ==
    {"autoSize", "backgroundColor", "border", "borderColor",
     "displayAsPassword", "embedFonts"}

(***************************************************************************)
(* The constructor chain.  A frame is one activation of an instance        *)
(* constructor: cls 0 is TextField, cls k its k-th ancestor; ip is its     *)
(* position in the constructor's steps; sup the result of its super_init   *)
(* call and sub the result of a constructor call it made re-entrantly      *)
(* ("none" until the call returns); checked tells that it has inspected    *)
(* the native backing.                                                     *)
(***************************************************************************)
Frame(cls) ==
    [cls |-> cls, ip |-> 1, sup |-> "none", sub |-> "none", checked |-> FALSE]

\* Mutant: the backing is inspected and bound before super_init is called.
instance_init_steps_check_first == <<"check_bind", "super_init", "return">>

\* instance_init in the order of its statements: the super_init call, the
\* backing check with the binding, the return.
instance_init_steps == <<"super_init", "check_bind", "return">>

\* An ancestor's constructor; the root has no super_init call.
ancestor_steps(cls) ==
    IF cls < NumAncestors THEN <<"super_init", "body", "return">>
    ELSE <<"body", "return">>

StepsOf(cls) == IF cls = 0 THEN instance_init_steps ELSE ancestor_steps(cls)
Pc(f) == StepsOf(f.cls)[f.ip]

Top == stack[Len(stack)]
Running == stack # <<>>
WithTop(f) == [stack EXCEPT ![Len(stack)] = f]

\* Mutant: the error of super_init is dropped.
super_init_failed_swallowed(sup) == FALSE

\* The ? after super_init: an error ends the constructor with that error.
super_init_failed(sup) == sup = "err"

\* Mutant: the check is left out, a backing is always made.
needs_backing_always == TRUE

\* Mutant: the check is inverted (is_some for is_none).
needs_backing_inverted == display_object # NoBacking

\* this.as_display_object().is_none()
needs_backing == display_object = NoBacking

\* Mutant: the EditText is made but never bound to the object.
init_display_object_unbound ==
    UNCHANGED <<display_object, num_backings, edit_text, border_written>>

\* EditText::new and init_display_object: the object gets a fresh backing.
init_display_object ==
    /\ display_object' = num_backings + 1
    /\ num_backings' = num_backings + 1
    /\ edit_text' = EditTextNew
    /\ border_written' = FALSE

\* The top activation returns: it is popped and its result handed to the
\* activation below, or to the outermost caller.
Return(ok) ==
    LET rest == SubSeq(stack, 1, Len(stack) - 1)
        res == IF ok THEN "ok" ELSE "err" IN
    IF rest = <<>>
    THEN /\ stack' = <<>>
         /\ last' = Call("instance_init", "", This, <<>>, ok,
                         IF ok THEN Undefined ELSE Error("error"))
    ELSE /\ stack' = [rest EXCEPT ![Len(rest)] =
                          IF Top.cls = 0 THEN [@ EXCEPT !.sub = res]
                          ELSE [@ EXCEPT !.sup = res]]
         /\ UNCHANGED last

(***************************************************************************)
(* Actions.                                                                *)
(***************************************************************************)
InitTextField ==
    /\ class = NoClass
    /\ display_object = NoBacking
    /\ edit_text = EditTextNew
    /\ num_backings = 0
    /\ stack = <<>>
    /\ last = NoCall
    /\ initialized = FALSE
    /\ border_written = FALSE
    /\ num_writes = 0

\* Mutant: the class is published first and each define_instance_trait call
\* is a step of its own, taken without the guard.
Bootstrap_unguarded ==
    /\ Len(class.instance_traits) < Len(TextFieldTraits)
    /\ class' = [create_class EXCEPT
                    !.instance_traits =
                        define_instance_trait(
                            class.instance_traits,
                            TextFieldTraits[Len(class.instance_traits) + 1])]
    /\ UNCHANGED <<display_object, edit_text, num_backings, stack, last,
                   initialized, border_written, num_writes>>
    /\ UNCHANGED <<hierarchy_vars, blur, runner>>

\* Bootstrap: create_class builds the class under its write guard.
Bootstrap ==
    /\ class = NoClass
    /\ class' = create_class
    /\ UNCHANGED <<display_object, edit_text, num_backings, stack, last,
                   initialized, border_written, num_writes>>
    /\ UNCHANGED <<hierarchy_vars, blur, runner>>

\* A caller invokes instance_init; without a receiver it returns at once.
Construct(this) ==
    /\ class # NoClass
    /\ ~Running
    /\ num_backings < MaxBackings
    /\ IF this = None
       THEN /\ last' = Call("instance_init", "", None, <<>>, TRUE, Undefined)
            /\ UNCHANGED stack
       ELSE /\ stack' = <<Frame(0)>>
            /\ last' = NoCall
    /\ UNCHANGED <<class, display_object, edit_text, num_backings,
                   initialized, border_written, num_writes>>
    /\ UNCHANGED <<hierarchy_vars, blur, runner>>

\* activation.super_init(this, &[]): the superclass's constructor is called,
\* or the call fails with stack-overflow.
SuperInit ==
    /\ Running
    /\ Pc(Top) = "super_init"
    /\ Top.sup = "none"
    /\ IF Len(stack) >= MaxDepth
       THEN stack' = WithTop([Top EXCEPT !.sup = "err"])
       ELSE stack' = Append(stack, Frame(Top.cls + 1))
    /\ UNCHANGED <<class, display_object, edit_text, num_backings, last,
                   initialized, border_written, num_writes>>
    /\ UNCHANGED <<hierarchy_vars, blur, runner>>

\* super_init has returned: its error is returned, or the constructor goes on.
SuperInitReturned ==
    /\ Running
    /\ Pc(Top) = "super_init"
    /\ Top.sup # "none"
    /\ IF super_init_failed(Top.sup)
       THEN Return(FALSE)
       ELSE /\ stack' = WithTop([Top EXCEPT !.ip = @ + 1])
            /\ UNCHANGED last
    /\ UNCHANGED <<class, display_object, edit_text, num_backings,
                   initialized, border_written, num_writes>>
    /\ UNCHANGED <<hierarchy_vars, blur, runner>>

\* instance_init: a backing is made and bound when the object has none.
CheckAndBind ==
    /\ Running
    /\ Top.cls = 0
    /\ Pc(Top) = "check_bind"
    /\ IF needs_backing
       THEN init_display_object
       ELSE UNCHANGED <<display_object, num_backings, edit_text, border_written>>
    /\ stack' = WithTop([Top EXCEPT !.ip = @ + 1, !.checked = TRUE])
    /\ UNCHANGED <<class, last, initialized, num_writes>>
    /\ UNCHANGED <<hierarchy_vars, blur, runner>>

\* instance_init returns Ok(Undefined): the leaf constructor has completed.
LeafReturn ==
    /\ Running
    /\ Top.cls = 0
    /\ Pc(Top) = "return"
    /\ Return(TRUE)
    /\ initialized' = TRUE
    /\ UNCHANGED <<class, display_object, edit_text, num_backings,
                   border_written, num_writes>>
    /\ UNCHANGED <<hierarchy_vars, blur, runner>>

\* An ancestor's constructor body binds a backing when the object has none.
AncestorBind ==
    /\ Running
    /\ Top.cls > 0
    /\ Pc(Top) = "body"
    /\ Top.sub = "none"
    /\ IF display_object = NoBacking
       THEN init_display_object
       ELSE UNCHANGED <<display_object, num_backings, edit_text, border_written>>
    /\ stack' = WithTop([Top EXCEPT !.ip = @ + 1, !.checked = TRUE])
    /\ UNCHANGED <<class, last, initialized, num_writes>>
    /\ UNCHANGED <<hierarchy_vars, blur, runner>>

\* An ancestor's constructor body leaves the backing alone.
AncestorSkip ==
    /\ Running
    /\ Top.cls > 0
    /\ Pc(Top) = "body"
    /\ Top.sub = "none"
    /\ stack' = WithTop([Top EXCEPT !.ip = @ + 1])
    /\ UNCHANGED <<class, display_object, edit_text, num_backings, last,
                   initialized, border_written, num_writes>>
    /\ UNCHANGED <<hierarchy_vars, blur, runner>>

\* An ancestor's constructor fails.
AncestorFail ==
    /\ Running
    /\ Top.cls > 0
    /\ Pc(Top) = "body"
    /\ Top.sub = "none"
    /\ Return(FALSE)
    /\ UNCHANGED <<class, display_object, edit_text, num_backings,
                   initialized, border_written, num_writes>>
    /\ UNCHANGED <<hierarchy_vars, blur, runner>>

\* An ancestor's constructor invokes the object's constructor chain again.
AncestorReenter ==
    /\ Running
    /\ Top.cls > 0
    /\ Pc(Top) = "body"
    /\ Top.sub = "none"
    /\ IF Len(stack) >= MaxDepth
       THEN stack' = WithTop([Top EXCEPT !.sub = "err"])
       ELSE stack' = Append(stack, Frame(0))
    /\ UNCHANGED <<class, display_object, edit_text, num_backings, last,
                   initialized, border_written, num_writes>>
    /\ UNCHANGED <<hierarchy_vars, blur, runner>>

\* The re-entrant call has returned to the ancestor's constructor.
AncestorReentered ==
    /\ Running
    /\ Top.cls > 0
    /\ Pc(Top) = "body"
    /\ Top.sub # "none"
    /\ IF Top.sub = "err"
       THEN Return(FALSE)
       ELSE /\ stack' = WithTop([Top EXCEPT !.ip = @ + 1])
            /\ UNCHANGED last
    /\ UNCHANGED <<class, display_object, edit_text, num_backings,
                   initialized, border_written, num_writes>>
    /\ UNCHANGED <<hierarchy_vars, blur, runner>>

\* An ancestor's constructor returns.
AncestorReturn ==
    /\ Running
    /\ Top.cls > 0
    /\ Pc(Top) = "return"
    /\ Return(TRUE)
    /\ UNCHANGED <<class, display_object, edit_text, num_backings,
                   initialized, border_written, num_writes>>
    /\ UNCHANGED <<hierarchy_vars, blur, runner>>

\* Read obj.Q: the getter the class's table holds for Q is invoked with obj.
get_property(name) ==
    LET m == find_in_chain(Public(name), "getter").method IN
    IF m = ""
    THEN /\ last' = Call("get_property", name, This, <<>>, FALSE,
                         Error("property-not-found"))
         /\ UNCHANGED <<edit_text, border_written>>
    ELSE LET r == Invoke(m, This, <<>>) IN
         /\ last' = Call("get_property", name, This, <<>>, r.ok, r.val)
         /\ edit_text' = r.et
         /\ border_written' = (border_written \/ r.et.has_border # edit_text.has_border)

\* Write obj.Q = v: the setter the class's table holds for Q is invoked with v,
\* and its return value discarded.
set_property(name, v) ==
    LET m == find_in_chain(Public(name), "setter").method IN
    IF m = ""
    THEN /\ last' = Call("set_property", name, This, <<v>>, FALSE,
                         Error("property-not-found"))
         /\ UNCHANGED <<edit_text, border_written>>
    ELSE LET r == Invoke(m, This, <<v>>) IN
         /\ last' = Call("set_property", name, This, <<v>>, r.ok,
                         IF r.ok THEN Undefined ELSE r.val)
         /\ edit_text' = r.et
         /\ border_written' =
                (border_written \/ (m = "set_border" /\ as_edit_text(This)))

GetProperty ==
    /\ class # NoClass
    /\ ~Running
    /\ \E name \in Properties : get_property(name)
    /\ UNCHANGED <<class, display_object, num_backings, stack, initialized,
                   num_writes>>
    /\ UNCHANGED <<hierarchy_vars, blur, runner>>

SetProperty ==
    /\ class # NoClass
    /\ ~Running
    /\ num_writes < MaxWrites
    /\ \E name \in Properties, v \in ArgValues : set_property(name, v)
    /\ num_writes' = num_writes + 1
    /\ UNCHANGED <<class, display_object, num_backings, stack, initialized>>
    /\ UNCHANGED <<hierarchy_vars, blur, runner>>

(***************************************************************************)
(* Bootstrap of the class hierarchy and trait lookup.  The ancestors are   *)
(* defined before TextField, whose class names the nearest one as its      *)
(* superclass; lookups are made once TextField exists.                     *)
(***************************************************************************)
\* The traits an ancestor may define: a getter TextField also has and a
\* getter TextField lacks, each with one of two methods.
AncestorMethods == {"inherited", "overridden"}
AncestorTraits ==
    {from_getter(Public("border"), m) : m \in AncestorMethods}
    \cup {from_getter(Public("mouseEnabled"), m) : m \in AncestorMethods}
StaticTraits ==
    {from_getter(Public("border"), m) : m \in AncestorMethods}
    \cup {from_setter(Public("border"), m) : m \in AncestorMethods}

\* The lookups made: QNames and kinds.
LookupNames == {"border", "mouseEnabled", "text"}
Kinds == {"getter", "setter"}

\* The operation on the tables that last returned.
Lookup(op, static, cls, trait, result) ==
    [op |-> op, static |-> static, cls |-> cls, trait |-> trait,
     result |-> result]
NoLookup == Lookup("", FALSE, 0, from_getter(Public(""), ""), NotFound)

InitHierarchy ==
    /\ ancestor_traits = [k \in Ancestors |-> <<>>]
    /\ static_traits = <<>>
    /\ num_defines = 0
    /\ lookup = NoLookup

\* The bootstrap of an ancestor defines an instance trait.
DefineInstanceTrait ==
    /\ class = NoClass
    /\ num_defines < MaxDefines
    /\ \E k \in Ancestors, trait \in AncestorTraits :
           /\ ancestor_traits' =
                  [ancestor_traits EXCEPT
                      ![k] = define_instance_trait(@, trait)]
           /\ lookup' = Lookup("define", FALSE, k, trait, NotFound)
    /\ num_defines' = num_defines + 1
    /\ UNCHANGED <<textfield_vars, static_traits, blur, runner>>

\* The bootstrap defines a static trait.
DefineStaticTrait ==
    /\ class = NoClass
    /\ num_defines < MaxDefines
    /\ \E trait \in StaticTraits :
           /\ static_traits' = define_static_trait(static_traits, trait)
           /\ lookup' = Lookup("define", TRUE, 0, trait, NotFound)
    /\ num_defines' = num_defines + 1
    /\ UNCHANGED <<textfield_vars, ancestor_traits, blur, runner>>

\* A trait of a TextField object is looked up by QName and kind.
FindTrait ==
    /\ class # NoClass
    /\ \E name \in LookupNames, kind \in Kinds :
           lookup' = Lookup("find", FALSE, 0,
                            [name |-> Public(name), kind |-> kind,
                             method |-> ""],
                            find_in_chain(Public(name), kind))
    /\ UNCHANGED <<textfield_vars, ancestor_traits, static_traits,
                   num_defines, blur, runner>>
(***************************************************************************)
(* Builtins called directly by native callers, with any receiver and with  *)
(* or without an argument.                                                 *)
(***************************************************************************)
CallReceivers == {None, Other, This}
CallArgs ==
    {<<>>, <<Str(S_left)>>, <<Str(S_center)>>, <<Str(S_right)>>,
     <<Str(S_abc)>>, <<Obj(TRUE)>>}

\* The argument lists a method is called with: a getter takes none; without
\* an EditText receiver a setter is called without an argument and with the
\* object whose conversion to a primitive throws.
ArgsOf(m, this) ==
    IF m \in Getters THEN {<<>>}
    ELSE IF this = This THEN CallArgs
    ELSE {<<>>, <<Obj(TRUE)>>}

\* The call is recorded with its method and arguments when the builtin
\* found its EditText and read them, else with its receiver only.
CallBuiltin ==
    /\ class # NoClass
    /\ ~Running
    /\ \E m \in Getters \cup Setters, this \in CallReceivers :
         \E args \in ArgsOf(m, this) :
           LET r == Invoke(m, this, args)
               writes == m \in Setters /\ as_edit_text(this) IN
           /\ writes => num_writes < MaxWrites
           /\ last' = IF as_edit_text(this)
                       THEN Call("call", m, this,
                                 IF m \in Setters THEN args ELSE <<>>,
                                 r.ok, r.val)
                       ELSE Call("call", "", this, <<>>, r.ok, r.val)
           /\ edit_text' = r.et
           /\ num_writes' = IF writes THEN num_writes + 1 ELSE num_writes
           /\ border_written' =
                  (border_written \/ (m = "set_border" /\ as_edit_text(this)))
    /\ UNCHANGED <<class, display_object, num_backings, stack, initialized>>
    /\ UNCHANGED <<hierarchy_vars, blur, runner>>

(***************************************************************************)
(* BlurFilter::apply.  A blur size is kept in quarters of a pixel and a    *)
(* pass scale in hundredths, so that the strength of a pass is computed    *)
(* exactly.  The textures are the source and the two targets A and B.      *)
(***************************************************************************)
Quarter == 4
Hundred == 100
\* PASS_SCALES, in hundredths.
PASS_SCALES ==
    <<100, 110, 60, 39, 40, 29, 18, 20, 19, 20, 39, 98, 0, 101, 0>>
\* filter.num_passes().min(15)
MaxPassCount == 15
\* strength.min(255.0)
MaxBlur == 255

\* The blur sizes of a filter, in quarters: -1, 0, 1, 1.75, 2, 5, 300.
BlurValues == {0 - 4, 0, 4, 7, 8, 20, 1200}
\* The pass counts of a filter.
NumPassesValues == {0, 1, 2, 3, 15, 16, 31}

Min2(a, b) == IF a <= b THEN a ELSE b

\* (strength.min(255.0) * pass_scale).floor() - 1.0
Strength(b, pass) ==
    ((Min2(b, MaxBlur * Quarter) * PASS_SCALES[pass]) \div (Hundred * Quarter))
        - 1

\* Mutant: only a negative strength is skipped.
is_noop_negative(strength) == strength < 0

\* strength <= 0.0: the pass is skipped.
is_noop(strength) == strength <= 0

\* Mutant: the targets are not swapped after a pass.
swap_forgotten(flip, flop) == <<flip, flop>>

\* std::mem::swap(&mut flip, &mut flop)
swap(flip, flop) == <<flop, flip>>

BlurIdle ==
    [pc |-> "idle", blur_x |-> 0, blur_y |-> 0, num_passes |-> 0, pass |-> 1,
     i |-> 0, first |-> TRUE, flip |-> "A", flop |-> "B", executed |-> 0,
     read |-> None, written |-> None, prev_written |-> None,
     result |-> None]

\* The strength of the iteration the loop is at.
CurrentStrength ==
    Strength(IF blur.i % 2 = 0 THEN blur.blur_x ELSE blur.blur_y, blur.pass)

InLoop ==
    /\ blur.pc = "loop"
    /\ blur.pass <= Min2(blur.num_passes, MaxPassCount)

\* The next iteration of for i in 0..2 inside for pass_scale in ...
Advance(b) ==
    IF b.i = 0 THEN [b EXCEPT !.i = 1]
    ELSE [b EXCEPT !.i = 0, !.pass = b.pass + 1]

\* apply is called: the two targets are made and the loops start.
BlurApply ==
    /\ blur.pc = "idle"
    /\ \E bx \in BlurValues, by \in BlurValues, n \in NumPassesValues :
           blur' = [BlurIdle EXCEPT !.pc = "loop", !.blur_x = bx,
                                    !.blur_y = by, !.num_passes = n]
    /\ UNCHANGED <<textfield_vars, hierarchy_vars, runner>>

\* An iteration whose strength is a noop: continue.
BlurSkipPass ==
    /\ InLoop
    /\ is_noop(CurrentStrength)
    /\ blur' = Advance(blur)
    /\ UNCHANGED <<textfield_vars, hierarchy_vars, runner>>

\* An iteration that renders: it reads the source (the first one) or flip,
\* writes flop, and swaps the two targets.
BlurRenderPass ==
    /\ InLoop
    /\ ~is_noop(CurrentStrength)
    /\ LET previous_view == IF blur.first THEN "source" ELSE blur.flip
           swapped == swap(blur.flip, blur.flop) IN
       blur' = Advance([blur EXCEPT !.first = FALSE,
                                    !.read = previous_view,
                                    !.written = blur.flop,
                                    !.prev_written = blur.written,
                                    !.executed = blur.executed + 1,
                                    !.flip = swapped[1],
                                    !.flop = swapped[2]])
    /\ UNCHANGED <<textfield_vars, hierarchy_vars, runner>>

\* The loops are over: None if nothing was rendered, else Some(flip).
BlurReturn ==
    /\ blur.pc = "loop"
    /\ ~InLoop
    /\ blur' = [blur EXCEPT !.pc = "done",
                            !.result = IF blur.first THEN None ELSE blur.flip]
    /\ UNCHANGED <<textfield_vars, hierarchy_vars, runner>>

(***************************************************************************)
(* run_swf.  The calls it makes on the player, the executor and the        *)
(* injector are counted; a duration is kept as the exact quotient          *)
(* num / den of milliseconds.                                              *)
(***************************************************************************)
\* 1000.0 / movie.frame_rate().to_f64()
Millis == 1000
frame_time(rate) == [num |-> Millis, den |-> rate]
\* Duration::from_millis(frame_time as u64)
frame_time_duration(rate) == Millis \div rate

FrameRates == {12, 24}
\* Real milliseconds that pass between two frames, the sleep aside.
ElapsedValues == {1, 50}

\* Mutant: the timers are updated before the frame is run.
frame_steps_timers_first ==
    <<"preload", "update_timers", "run_frame", "executor_run", "input",
      "render">>

\* The body of the frame loop, in the order of its statements.
frame_steps ==
    <<"preload", "run_frame", "update_timers", "executor_run", "input",
      "render">>

NoCounts ==
    [before_start |-> 0, sleep |-> 0, preload_calls |-> 0, preload |-> 0,
     run_frame |-> 0, update_timers |-> 0, executor_run |-> 0, input |-> 0,
     render |-> 0, image_render |-> 0, before_end |-> 0,
     final_executor_run |-> 0]

RunnerIdle ==
    [pc |-> "idle", num_frames |-> 0, frame_rate |-> 12, setup_ok |-> TRUE,
     before_start_ok |-> TRUE, before_end_ok |-> TRUE, check_img |-> FALSE,
     frame_time_sleep |-> FALSE,
     frame |-> 0, ip |-> 1, tries |-> 0, elapsed |-> 0,
     timer_dt |-> frame_time(12), counts |-> NoCounts, result |-> "none"]

Step == frame_steps[runner.ip]
Count(r, e) == [r EXCEPT !.counts[e] = r.counts[e] + 1]
\* The next statement of the loop body; after the last one, the loop test.
NextStep(r) ==
    IF r.ip < Len(frame_steps) THEN [r EXCEPT !.ip = r.ip + 1]
    ELSE [r EXCEPT !.pc = "loop", !.ip = 1, !.frame = r.frame + 1]

\* run_swf is called.
RunSwf ==
    /\ runner.pc = "idle"
    /\ \E n \in 0 .. MaxFrames, rate \in FrameRates,
          setup \in BOOLEAN, bs \in BOOLEAN, be \in BOOLEAN,
          img \in BOOLEAN, sleep \in BOOLEAN :
           runner' = [RunnerIdle EXCEPT
                         !.pc = "setup", !.num_frames = n,
                         !.frame_rate = rate, !.setup_ok = setup,
                         !.before_start_ok = bs, !.before_end_ok = be,
                         !.check_img = img, !.frame_time_sleep = sleep]
    /\ UNCHANGED <<textfield_vars, hierarchy_vars, blur>>

\* The movie is loaded and the player built; a failure returns the error.
Setup ==
    /\ runner.pc = "setup"
    /\ runner' = IF runner.setup_ok
                 THEN [runner EXCEPT !.pc = "before_start"]
                 ELSE [runner EXCEPT !.pc = "returned", !.result = "err"]
    /\ UNCHANGED <<textfield_vars, hierarchy_vars, blur>>

\* before_start(player.clone())?
BeforeStart ==
    /\ runner.pc = "before_start"
    /\ runner' = IF runner.before_start_ok
                 THEN Count([runner EXCEPT !.pc = "loop"], "before_start")
                 ELSE Count([runner EXCEPT !.pc = "returned",
                                           !.result = "err"],
                            "before_start")
    /\ UNCHANGED <<textfield_vars, hierarchy_vars, blur>>

\* for _ in 0..num_frames: an iteration starts, with the sleep if requested.
FrameStart ==
    /\ runner.pc = "loop"
    /\ runner.frame < runner.num_frames
    /\ \E real \in ElapsedValues :
           LET r == [runner EXCEPT
                        !.pc = "frame", !.ip = 1, !.tries = 0,
                        !.elapsed =
                            real + IF runner.frame_time_sleep
                                   THEN frame_time_duration(runner.frame_rate)
                                   ELSE 0] IN
           runner' = IF runner.frame_time_sleep THEN Count(r, "sleep") ELSE r
    /\ UNCHANGED <<textfield_vars, hierarchy_vars, blur>>

\* while !preload(..) {}: one call; it is made again until it returns true.
Preload ==
    /\ runner.pc = "frame"
    /\ Step = "preload"
    /\ \E complete \in BOOLEAN :
           /\ ~complete => runner.tries + 1 < MaxPreloads
           /\ LET r == Count([runner EXCEPT !.tries = runner.tries + 1],
                             "preload_calls") IN
              runner' = IF complete THEN NextStep(Count(r, "preload")) ELSE r
    /\ UNCHANGED <<textfield_vars, hierarchy_vars, blur>>

RunFrame ==
    /\ runner.pc = "frame"
    /\ Step = "run_frame"
    /\ runner' = NextStep(Count(runner, "run_frame"))
    /\ UNCHANGED <<textfield_vars, hierarchy_vars, blur>>

\* update_timers(frame_time)
UpdateTimers ==
    /\ runner.pc = "frame"
    /\ Step = "update_timers"
    /\ runner' = NextStep(Count([runner EXCEPT
                                    !.timer_dt = frame_time(runner.frame_rate)],
                                "update_timers"))
    /\ UNCHANGED <<textfield_vars, hierarchy_vars, blur>>

ExecutorRun ==
    /\ runner.pc = "frame"
    /\ Step = "executor_run"
    /\ runner' = NextStep(Count(runner, "executor_run"))
    /\ UNCHANGED <<textfield_vars, hierarchy_vars, blur>>

\* injector.next(..): the events of this frame are handed to the player.
InjectInput ==
    /\ runner.pc = "frame"
    /\ Step = "input"
    /\ runner' = NextStep(Count(runner, "input"))
    /\ UNCHANGED <<textfield_vars, hierarchy_vars, blur>>

Render ==
    /\ runner.pc = "frame"
    /\ Step = "render"
    /\ runner' = NextStep(Count(runner, "render"))
    /\ UNCHANGED <<textfield_vars, hierarchy_vars, blur>>

\* The loop is over.  With the image check, the player renders once more and
\* the image is compared: a mismatch saves the image and panics, or returns
\* the error of the save.
FramesDone ==
    /\ runner.pc = "loop"
    /\ runner.frame >= runner.num_frames
    /\ IF ~runner.check_img
       THEN runner' = [runner EXCEPT !.pc = "before_end"]
       ELSE \E outcome \in {"before_end", "panicked", "returned"} :
               runner' = Count([runner EXCEPT
                                   !.pc = outcome,
                                   !.result = IF outcome = "returned"
                                              THEN "err" ELSE "none"],
                               "image_render")
    /\ UNCHANGED <<textfield_vars, hierarchy_vars, blur>>

\* before_end(player)?
BeforeEnd ==
    /\ runner.pc = "before_end"
    /\ runner' = IF runner.before_end_ok
                 THEN Count([runner EXCEPT !.pc = "final"], "before_end")
                 ELSE Count([runner EXCEPT !.pc = "returned",
                                           !.result = "err"],
                            "before_end")
    /\ UNCHANGED <<textfield_vars, hierarchy_vars, blur>>

\* executor.run() and Ok(trace)
Finish ==
    /\ runner.pc = "final"
    /\ runner' = Count([runner EXCEPT !.pc = "returned", !.result = "ok"],
                       "final_executor_run")
    /\ UNCHANGED <<textfield_vars, hierarchy_vars, blur>>

(***************************************************************************)
(* Specifications.                                                         *)
(***************************************************************************)
Init ==
    /\ InitTextField
    /\ InitHierarchy
    /\ blur = BlurIdle
    /\ runner = RunnerIdle

\* A TextField object: its class, its construction and its properties.
Next ==
    \/ Bootstrap
    \/ \E this \in Receivers : Construct(this)
    \/ SuperInit
    \/ SuperInitReturned
    \/ CheckAndBind
    \/ LeafReturn
    \/ AncestorBind
    \/ AncestorSkip
    \/ AncestorFail
    \/ AncestorReenter
    \/ AncestorReentered
    \/ AncestorReturn
    \/ GetProperty
    \/ SetProperty

Spec == Init /\ [][Next]_vars

\* The bootstrap of the hierarchy and the lookups in it.
NextClass ==
    \/ DefineInstanceTrait
    \/ DefineStaticTrait
    \/ Bootstrap
    \/ FindTrait

SpecClass == Init /\ [][NextClass]_vars

\* A TextField object whose builtins native callers invoke directly.
NextCall ==
    \/ Bootstrap
    \/ \E this \in Receivers : Construct(this)
    \/ SuperInit
    \/ SuperInitReturned
    \/ CheckAndBind
    \/ LeafReturn
    \/ AncestorBind
    \/ AncestorSkip
    \/ AncestorFail
    \/ AncestorReenter
    \/ AncestorReentered
    \/ AncestorReturn
    \/ CallBuiltin

SpecCall == Init /\ [][NextCall]_vars

\* One call of BlurFilter::apply.
NextBlur ==
    \/ BlurApply
    \/ BlurSkipPass
    \/ BlurRenderPass
    \/ BlurReturn

SpecBlur == Init /\ [][NextBlur]_vars

\* One call of run_swf.
NextRunner ==
    \/ RunSwf
    \/ Setup
    \/ BeforeStart
    \/ FrameStart
    \/ Preload
    \/ RunFrame
    \/ UpdateTimers
    \/ ExecutorRun
    \/ InjectInput
    \/ Render
    \/ FramesDone
    \/ BeforeEnd
    \/ Finish

SpecRunner == Init /\ [][NextRunner]_vars

(***************************************************************************)
(* Construction state of the object.                                       *)
(***************************************************************************)
ConstructionState ==
    IF initialized THEN "Initialized"
    ELSE IF display_object # NoBacking THEN "BackingBound"
    ELSE "Allocated"

Rank(state) ==
    CASE state = "Allocated" -> 0
      [] state = "BackingBound" -> 1
      [] state = "Initialized" -> 2

(***************************************************************************)
(* Properties.                                                             *)
(***************************************************************************)

\* C1: whatever constructor invocations have run on the object, in any number
\* and nesting, it has at most one native backing, and exactly one once a
\* constructor of the chain has bound or found one.
C1_AtMostOneBacking ==
    /\ num_backings <= 1
    /\ display_object = num_backings
    /\ \A i \in DOMAIN stack : stack[i].checked => num_backings = 1
    /\ initialized => num_backings = 1

\* C1 witness: a constructor invoked re-entrantly, inside a running chain, has
\* passed its backing check and the object has its one backing.
C1_Witness ==
    /\ \E i, j \in DOMAIN stack :
           i < j /\ stack[i].cls = 0 /\ stack[j].cls = 0 /\ stack[j].checked
    /\ num_backings = 1

\* C2: once the object has a backing, no step of any later constructor
\* invocation binds another: the backing stays the same one.
C2_RebindIsNoOp ==
    [][display_object # NoBacking =>
           /\ display_object' = display_object
           /\ num_backings' = num_backings]_vars

\* C2 witness: on an object a leaf constructor has already completed on, a
\* further top-level invocation has passed its backing check.
C2_Witness ==
    /\ initialized
    /\ Len(stack) = 1
    /\ Top.cls = 0
    /\ Top.checked
    /\ display_object = 1

\* C3: instance_init inspects or binds the backing only after its super_init
\* call has returned, with no ancestor constructor of its chain still running.
C3_SuperInitFirst ==
    \A i \in DOMAIN stack :
        stack[i].cls = 0 =>
            /\ (Pc(stack[i]) = "check_bind" \/ stack[i].checked) =>
                   stack[i].sup = "ok"
            /\ Pc(stack[i]) = "check_bind" => i = Len(stack)

\* C3 witness: instance_init has bound the backing itself, after super_init
\* returned without binding one.
C3_Witness ==
    /\ Running
    /\ Top.cls = 0
    /\ Top.checked
    /\ Top.sup = "ok"
    /\ Pc(Top) = "return"
    /\ ~initialized

\* C4: when super_init has failed, the next step of instance_init returns the
\* error to its caller; it binds nothing and the object's backing, fields and
\* construction state stay as they were.
C4_SuperInitFailureAborts ==
    [][(Running /\ Top.cls = 0 /\ Top.sup = "err") =>
           /\ Len(stack') = Len(stack) - 1
           /\ IF Len(stack) = 1
              THEN last'.op = "instance_init" /\ ~last'.ok
              ELSE stack'[Len(stack')].sub = "err"
           /\ display_object' = display_object
           /\ num_backings' = num_backings
           /\ edit_text' = edit_text
           /\ ConstructionState' = ConstructionState]_vars

\* C4 witness: the constructor has returned an error to the outermost caller
\* and left the object at BackingBound.
C4_Witness ==
    /\ ~Running
    /\ last.op = "instance_init"
    /\ ~last.ok
    /\ ConstructionState = "BackingBound"

\* C5: the construction state moves forward one state at a time: to
\* BackingBound by a constructor binding a backing, to Initialized by the leaf
\* constructor returning after its super_init returned; never backwards.
C5_ForwardOnly ==
    [][/\ Rank(ConstructionState') >= Rank(ConstructionState)
       /\ Rank(ConstructionState') <= Rank(ConstructionState) + 1
       /\ (ConstructionState = "Allocated" /\ ConstructionState' = "BackingBound") =>
              /\ Running
              /\ num_backings' = num_backings + 1
              /\ stack'[Len(stack)].checked
       /\ (ConstructionState # "Initialized" /\ ConstructionState' = "Initialized") =>
              /\ Running
              /\ Top.cls = 0
              /\ Top.sup = "ok"
              /\ Top.checked
              /\ Len(stack') = Len(stack) - 1]_vars

\* C5 witness: the object is Initialized and its constructor has returned Ok.
C5_Witness ==
    /\ ~Running
    /\ ConstructionState = "Initialized"
    /\ last.op = "instance_init"
    /\ last.ok

(***************************************************************************)
(* Accessor properties.  They speak of the write that last returned        *)
(* (last) and of what the getters read in that state.                      *)
(***************************************************************************)
\* What get_property(obj, name) returns in the current state.
Read(name) ==
    Invoke(find_instance_trait(class.instance_traits, Public(name), "getter"),
           This, <<>>).val

\* The write set_property(obj, name, v) has just returned Ok on a constructed
\* object.
Wrote(name) ==
    /\ ~Running
    /\ ConstructionState = "Initialized"
    /\ last.op = "set_property"
    /\ last.name = name
    /\ last.ok

BooleanProperties == {"border", "displayAsPassword", "embedFonts"}
ColorProperties == {"backgroundColor", "borderColor"}

\* The setter's coercion of v, as a value.
Coerced(name, v) ==
    CASE name \in BooleanProperties -> Bool(coerce_to_boolean(v))
      [] name \in ColorProperties -> Uint(coerce_to_u32(v).val)
      [] name = "autoSize" -> Str(coerce_to_string(v).val)

\* C6, as stated: after a write that returned Ok, every paired accessor reads
\* the setter's coercion of the value written.
C6_SetThenGetAllAccessors ==
    \A name \in Properties :
        Wrote(name) => Read(name) = Coerced(name, last.args[1])

\* C6, amended: border, displayAsPassword and embedFonts read
\* coerce_to_boolean(v); backgroundColor and borderColor read coerce_to_u32(v);
\* autoSize reads v's string when that is "left", "center" or "right" and
\* "none" otherwise.
C6_SetThenGet ==
    /\ \A name \in BooleanProperties \cup ColorProperties :
           Wrote(name) => Read(name) = Coerced(name, last.args[1])
    /\ Wrote("autoSize") =>
           LET str == coerce_to_string(last.args[1]).val IN
           Read("autoSize") =
               IF str \in {S_left, S_center, S_right} THEN Str(str)
               ELSE Str(S_none)

\* C6 witness: border was set to 1 and reads true.
C6_Witness ==
    /\ Wrote("border")
    /\ last.args = <<Num(1)>>
    /\ Read("border") = Bool(TRUE)

\* C7: an object that has its backing and whose border was never written
\* reads false for border.
C7_FreshBorderIsFalse ==
    (class # NoClass /\ display_object # NoBacking /\ ~border_written) =>
        Read("border") = Bool(FALSE)

\* C7 witness: the constructor has completed, border was never written, and
\* get_property(border) has returned false.
C7_Witness ==
    /\ ~Running
    /\ ConstructionState = "Initialized"
    /\ ~border_written
    /\ num_writes = 0
    /\ last.op = "get_property"
    /\ last.name = "border"
    /\ last.ok
    /\ last.val = Bool(FALSE)

Falsy == {Num(0), Str(<<>>), Null, Undefined}
Truthy == {Num(1), Str(S_x), Obj(FALSE), Obj(TRUE)}

\* The flag a boolean property's setter stores, as its getter reports it.
Flag(name) ==
    CASE name = "border" -> edit_text.has_border
      [] name = "displayAsPassword" -> edit_text.is_password
      [] name = "embedFonts" -> ~edit_text.is_device_font

\* C8: a boolean setter never fails, stores false for 0, "", null and
\* undefined, and true for 1, a non-empty string and an object.
C8_BooleanCoercion ==
    \A name \in BooleanProperties :
        (/\ ~Running
         /\ display_object # NoBacking
         /\ last.op = "set_property"
         /\ last.name = name) =>
            /\ last.ok
            /\ last.args[1] \in Falsy => Flag(name) = FALSE
            /\ last.args[1] \in Truthy => Flag(name) = TRUE

\* C8 witness: embedFonts was set to an object whose conversion to a
\* primitive throws; the write returned Ok and stored true.
C8_Witness ==
    /\ Wrote("embedFonts")
    /\ last.args = <<Obj(TRUE)>>
    /\ ~edit_text.is_device_font

\* The backing field a colour property's setter stores.
Color(name) ==
    CASE name = "backgroundColor" -> edit_text.background_color
      [] name = "borderColor" -> edit_text.border_color

\* C9: writing the string "abc" to backgroundColor or borderColor does not
\* fail and stores 0.
C9_NonNumericStringIsZero ==
    \A name \in ColorProperties :
        (/\ ~Running
         /\ display_object # NoBacking
         /\ last.op = "set_property"
         /\ last.name = name
         /\ last.args = <<Str(S_abc)>>) =>
            /\ last.ok
            /\ Color(name) = U32(0, 0)

\* C9 witness: backgroundColor, white in a new backing, was set to "abc" and
\* is 0.
C9_Witness ==
    /\ Wrote("backgroundColor")
    /\ last.args = <<Str(S_abc)>>
    /\ edit_text.background_color = U32(0, 0)
    /\ edit_text.border_color = U32(0, 0)
    /\ num_writes = 1

\* The paired accessors of create_class: the QName, its getter, its setter.
PairedAccessors ==
    { <<"autoSize", "autosize", "set_autosize">>,
      <<"backgroundColor", "background_color", "set_background_color">>,
      <<"border", "border", "set_border">>,
      <<"borderColor", "border_color", "set_border_color">>,
      <<"defaultTextFormat", "default_text_format", "set_default_text_format">>,
      <<"displayAsPassword", "display_as_password", "set_display_as_password">>,
      <<"embedFonts", "embed_fonts", "set_embed_fonts">>,
      <<"htmlText", "html_text", "set_html_text">> }

\* Both halves of every paired accessor are found in the table.
ResolvesPairs(table) ==
    \A a \in PairedAccessors :
        /\ find_instance_trait(table, Public(a[1]), "getter") = a[2]
        /\ find_instance_trait(table, Public(a[1]), "setter") = a[3]

\* The traits in the order that registers the setter before the getter for
\* the QNames in flipped.
RECURSIVE Flipped(_, _)
Flipped(traits, flipped) ==
    IF Len(traits) < 2 THEN traits
    ELSE IF /\ traits[1].name = traits[2].name
            /\ traits[1].name.name \in flipped
         THEN <<traits[2], traits[1]>> \o Flipped(Tail(Tail(traits)), flipped)
         ELSE <<traits[1]>> \o Flipped(Tail(traits), flipped)

PairedNames == { a[1] : a \in PairedAccessors }

\* Whichever of a getter and its setter is registered first, both are found.
OrderIndependent ==
    \A flipped \in SUBSET PairedNames :
        ResolvesPairs(DefineAll(<<>>, Flipped(TextFieldTraits, flipped)))

\* C10: in the class create_class has built every paired QName resolves to
\* both its getter and its setter, and does so in whichever order the two are
\* registered.
C10_AccessorsCompose ==
    class # NoClass =>
        /\ ResolvesPairs(class.instance_traits)
        /\ OrderIndependent

\* C10 witness: the class is built and its table holds all 17 traits, none
\* overwritten.
C10_Witness ==
    /\ class # NoClass
    /\ Len(class.instance_traits) = Len(TextFieldTraits)
    /\ Len(class.instance_traits) = 2 * Cardinality(PairedAccessors) + 1

\* The table holds at most one trait per QName and kind.
OneTraitPerKey(table) ==
    \A i, j \in DOMAIN table :
        (table[i].name = table[j].name /\ table[i].kind = table[j].kind)
            => i = j

\* The table a define call wrote.
DefinedTable ==
    IF lookup.static THEN static_traits ELSE ancestor_traits[lookup.cls]

\* C11: after any sequence of define_instance_trait and define_static_trait
\* calls every table holds at most one trait per QName and kind, the trait of
\* the last call being the one its table holds for that QName and kind; the
\* instance table create_class builds has no two traits of one QName and kind.
C11_OneTraitPerQNameAndKind ==
    /\ \A k \in Ancestors : OneTraitPerKey(ancestor_traits[k])
    /\ OneTraitPerKey(static_traits)
    /\ OneTraitPerKey(class.instance_traits)
    /\ lookup.op = "define" =>
           \E i \in DOMAIN DefinedTable : DefinedTable[i] = lookup.trait

\* C11 witness: a table received a second trait of a QName and kind it
\* already held, with another method, and holds the second one alone.
C11_Witness ==
    /\ lookup.op = "define"
    /\ ~lookup.static
    /\ lookup.trait.method = "overridden"
    /\ num_defines = 2
    /\ Len(ancestor_traits[lookup.cls]) = 1
    /\ class # NoClass

\* The nearest ancestor whose table has a trait of this QName and kind, 0
\* when none has.
NearestAncestor(q, kind) ==
    LET defining == {k \in Ancestors :
                        \E i \in DOMAIN ancestor_traits[k] :
                            /\ ancestor_traits[k][i].name = q
                            /\ ancestor_traits[k][i].kind = kind} IN
    IF defining = {} THEN 0
    ELSE CHOOSE k \in defining : \A j \in defining : k <= j

\* C12: a lookup on a TextField object answers from TextField's own table
\* when create_class registered a trait of that QName and kind, whatever the
\* ancestors define; otherwise from the nearest ancestor that defines one;
\* and finds nothing only when no class of the chain defines one.
C12_NearestDefinitionWins ==
    lookup.op = "find" =>
        LET q == lookup.trait.name
            kind == lookup.trait.kind
            own == {i \in DOMAIN TextFieldTraits :
                       /\ TextFieldTraits[i].name = q
                       /\ TextFieldTraits[i].kind = kind}
            k == NearestAncestor(q, kind) IN
        IF own # {}
        THEN /\ lookup.result.cls = 0
             /\ \E i \in own : lookup.result.method = TextFieldTraits[i].method
        ELSE IF k # 0
        THEN /\ lookup.result.cls = k
             /\ \E i \in DOMAIN ancestor_traits[k] :
                    /\ ancestor_traits[k][i].name = q
                    /\ ancestor_traits[k][i].kind = kind
                    /\ ancestor_traits[k][i].method = lookup.result.method
        ELSE lookup.result = NotFound

\* C12 witness: the getter border was looked up while two ancestors define a
\* getter border too, and TextField's own getter answered.
C12_Witness ==
    /\ lookup.op = "find"
    /\ lookup.trait.name = Public("border")
    /\ lookup.trait.kind = "getter"
    /\ NearestAncestor(Public("border"), "getter") = 1
    /\ find_instance_trait(ancestor_traits[NumAncestors], Public("border"),
                           "getter") # ""
    /\ lookup.result = Found(0, "border")

\* The setters that coerce their argument, and the arguments whose coercion
\* fails: an object whose conversion to a primitive throws has no number and
\* no string, undefined has no object.
FailsToCoerce(m, v) ==
    \/ /\ m \in {"set_background_color", "set_border_color", "set_autosize",
                 "set_html_text"}
       /\ v = Obj(TRUE)
    \/ /\ m = "set_default_text_format"
       /\ v \in {Undefined, Null}

\* C13: a call of set_background_color, set_border_color, set_autosize,
\* set_html_text or set_default_text_format on an EditText with an argument
\* whose coercion fails returns the type-coercion error to the caller and
\* leaves every field of the backing as it was.
C13_CoercionErrorPropagates ==
    [][(/\ num_writes' = num_writes + 1
        /\ last'.op = "call"
        /\ FailsToCoerce(last'.name, arg0(last'.args)))
           => /\ ~last'.ok
              /\ last'.val = Error("type-coercion")
              /\ edit_text' = edit_text]_vars

\* C13 witness: set_autosize failed on its argument after an earlier call had
\* set the mode to Center, and the mode is still Center.
C13_Witness ==
    /\ last = Call("call", "set_autosize", This, <<Obj(TRUE)>>, FALSE,
                   Error("type-coercion"))
    /\ num_writes = 2
    /\ edit_text.autosize = "Center"

\* The table holds every trait create_class registers.
Complete(table) ==
    \A i \in DOMAIN TextFieldTraits :
        find_instance_trait(table, TextFieldTraits[i].name,
                            TextFieldTraits[i].kind)
            = TextFieldTraits[i].method

\* C14: the only step that changes a trait table is create_class, which takes
\* the class from absent to complete in one step; no step of a constructor,
\* getter or setter, successful or failed, changes the table of TextField or
\* of an ancestor, and no state holds a table between two insertions.
C14_TablesWrittenOnlyAtBootstrap ==
    [][/\ class' # class =>
              (class = NoClass /\ Complete(class'.instance_traits))
       /\ ancestor_traits' = ancestor_traits
       /\ static_traits' = static_traits]_vars

\* C14 witness: a constructor has run, a setter has succeeded and a later
\* setter has failed, and the class still has its complete table.
C14_Witness ==
    /\ initialized
    /\ num_writes = 2
    /\ border_written
    /\ last.op = "set_property"
    /\ ~last.ok
    /\ Complete(class.instance_traits)

\* C17: a getter or setter called without a receiver, with a receiver whose
\* display object is not an EditText, or with the object while it has no
\* backing, returns undefined without an error, also when its argument is one
\* whose coercion would fail, and changes nothing of the object, its backing
\* or the class.
C17_NoEditTextReturnsUndefined ==
    [][(/\ last' # last
        /\ last'.op = "call"
        /\ \/ last'.this \in {None, Other}
           \/ display_object = NoBacking)
           => /\ last'.ok
              /\ last'.val = Undefined
              /\ UNCHANGED <<class, display_object, edit_text, num_backings,
                             stack, initialized, border_written,
                             num_writes>>]_vars

\* C17 witness: a builtin was called on the object while it was still
\* Allocated, and returned undefined.
C17_Witness ==
    /\ last = Call("call", "", This, <<>>, TRUE, Undefined)
    /\ ConstructionState = "Allocated"
    /\ num_backings = 0
    /\ num_writes = 0

\* The getter create_class registers for each property, and what the
\* getters read from the object.
GetterOf ==
    [name \in Properties |->
        find_instance_trait(create_class.instance_traits, Public(name),
                            "getter")]
Reads == [name \in Properties |-> Invoke(GetterOf[name], This, <<>>).val]

\* C18: a write through a setter that changes the backing leaves what every
\* other getter reads as it was: after set_border the autoSize, backgroundColor, borderColor,
\* displayAsPassword and embedFonts getters read what they read before, and
\* likewise for each other setter; a read changes no field of the backing.
C18_SetterWritesOwnPropertyOnly ==
    [][/\ (/\ num_writes' = num_writes + 1
           /\ last'.op = "set_property"
           /\ edit_text' # edit_text)
              => \A other \in Properties \ {last'.name} :
                     Reads'[other] = Reads[other]
       /\ (last' # last /\ last'.op = "get_property")
              => edit_text' = edit_text]_vars

\* C18 witness: borderColor was written with a value that differs from the
\* background colour, on a backing whose border flag had been set, and the
\* flag and the background colour read as before.
C18_Witness ==
    /\ Wrote("borderColor")
    /\ num_writes = 2
    /\ Read("borderColor") = Uint(U32(0, 1))
    /\ Read("border") = Bool(TRUE)
    /\ Read("backgroundColor") = Uint(U32(255, Half - 1))

\* C19: once set_autosize has returned on an EditText, the autoSize getter
\* reads the argument itself when it is the string "left", "center" or
\* "right", and "none" for every other argument, a missing one included; and
\* in every state, setting autoSize to what the getter reads leaves the mode
\* as it is.
C19_AutoSizeRoundTrip ==
    /\ (last.op = "call" /\ last.name = "set_autosize" /\ last.ok)
           => autosize(This, <<>>).val
                  = IF /\ Len(last.args) = 1
                       /\ last.args[1] \in {Str(S_left), Str(S_center),
                                            Str(S_right)}
                    THEN last.args[1]
                    ELSE Str(S_none)
    /\ display_object # NoBacking
           => set_autosize(This, <<autosize(This, <<>>).val>>).et = edit_text

\* C19 witness: set_autosize was called without an argument, as the second
\* write to the backing, and the getter reads "none".
C19_Witness ==
    /\ last = Call("call", "set_autosize", This, <<>>, TRUE, Undefined)
    /\ num_writes = 2
    /\ autosize(This, <<>>).val = Str(S_none)

\* Every iteration apply makes has a strength that is a noop.
AllPassesNoop ==
    \A pass \in 1 .. Min2(blur.num_passes, MaxPassCount) :
        \A b \in {blur.blur_x, blur.blur_y} :
            ((Min2(b, MaxBlur * Quarter) * PASS_SCALES[pass])
                 \div (Hundred * Quarter)) - 1 <= 0

\* C15: apply returns None exactly when it executed no render pass, which is
\* exactly when floor(min(blur, 255) * pass_scale) - 1 <= 0 for both
\* directions of each of the first min(num_passes, 15) passes, a filter with
\* no passes included; otherwise it returns a target.
C15_NoneIffNoPassExecuted ==
    blur.pc = "done" =>
        /\ (blur.result = None) <=> (blur.executed = 0)
        /\ (blur.result = None) <=> AllPassesNoop
        /\ blur.result \in {None, "A", "B"}

\* C15 witness: a filter with 15 passes and a blur of 1.75 in both
\* directions returned None.
C15_Witness ==
    /\ blur.pc = "done"
    /\ blur.num_passes = 15
    /\ blur.blur_x = 7
    /\ blur.blur_y = 7
    /\ blur.result = None

\* C20: every executed render pass reads a texture other than the target it
\* writes: the first executed pass reads the source, every later one the
\* target the previous executed pass wrote, whatever passes were skipped in
\* between; and the target returned is the one the last executed pass wrote.
C20_PingPong ==
    /\ blur.executed >= 1 =>
           /\ blur.read # blur.written
           /\ blur.written \in {"A", "B"}
           /\ blur.executed = 1 => blur.read = "source"
           /\ blur.executed > 1 => blur.read = blur.prev_written
    /\ (blur.pc = "done" /\ blur.executed >= 1) =>
           blur.result = blur.written

\* C20 witness: three passes were executed, with skipped passes between
\* them, and the target of the third one was returned.
C20_Witness ==
    /\ blur.pc = "done"
    /\ blur.executed = 3
    /\ blur.blur_y = 4
    /\ blur.num_passes = 31
    /\ blur.result = blur.written

\* C16: in every state of run_swf the calls made so far are whole
\* iterations followed by a prefix of one, in the order completed preload,
\* run_frame, update_timers, executor.run, input injection, render; a frame
\* is run only after a preload call reported completion; update_timers gets
\* 1000 / frame rate whatever real time has passed; before_start is called
\* once, before any call of an iteration, and no iteration starts when it
\* failed; before_end is called at most once, after num_frames whole
\* iterations; and a run that returns Ok has made num_frames iterations.
C16_FrameLoopOrder ==
    LET n == runner.counts IN
    /\ n.render <= n.input
    /\ n.input <= n.executor_run
    /\ n.executor_run <= n.update_timers
    /\ n.update_timers <= n.run_frame
    /\ n.run_frame <= n.preload
    /\ n.preload <= n.render + 1
    /\ n.preload <= n.preload_calls
    /\ n.preload <= runner.num_frames
    /\ n.update_timers >= 1 =>
           /\ runner.timer_dt.num = Millis
           /\ runner.timer_dt.den = runner.frame_rate
    /\ n.before_start <= 1
    /\ n.preload_calls >= 1 =>
           (n.before_start = 1 /\ runner.before_start_ok)
    /\ n.before_end <= 1
    /\ n.before_end = 1 => n.render = runner.num_frames
    /\ runner.result = "ok" =>
           /\ n.before_start = 1
           /\ n.before_end = 1
           /\ n.preload = runner.num_frames
           /\ n.render = runner.num_frames

\* C16 witness: a run of two frames with the sleep returned Ok; a preload had
\* to be repeated, and real time differed from the frame time.
C16_Witness ==
    /\ runner.pc = "returned"
    /\ runner.result = "ok"
    /\ runner.num_frames = 2
    /\ runner.counts.render = 2
    /\ runner.counts.preload_calls = 3
    /\ runner.frame_time_sleep
    /\ runner.elapsed = 91

====
